---- MODULE Spec2Model ----
EXTENDS Integers, Sequences, FiniteSets, TLC

(***************************************************************************)
(* Parse.Collection (src/src/collection.js): an ordered set of model       *)
(* objects, indexed by server id (_byId) and by client id (_byCid), that   *)
(* listens to every member's events.                                       *)
(*                                                                         *)
(* The Parse.Object, Parse.Query and Parse.Events collaborators are not    *)
(* part of the file.  An object is modelled by what the collection reads   *)
(* of it: its cid (fixed), its id (server id, may be absent), its `rank`   *)
(* attribute (read by comparators) and the list of collections whose       *)
(* _onModelEvent is registered on it.                                      *)
(***************************************************************************)

\* ------------------------------------------------------------ universe --

MaxBatch == 2        \* longest list handed to add / remove / reset
MaxInFlight == 2     \* most fetches (and most saves) awaiting their result

Objs == {"o1", "o2", "o3"}       \* Parse.Object instances
Ids == {"a", "b", "c"}           \* server ids (objectId)
Colls == {"A", "B"}              \* Parse.Collection instances
Ranks == {1, 2}                  \* values of the attribute `rank`

NoId == "noid"                   \* model.id is undefined
Undefined == "undefined"         \* the JavaScript value undefined
Falsy == "false"                 \* the value false (_prepareModel, create)
NoColl == "nocoll"               \* model.collection is not set
BadAttrs == "badattrs"           \* a raw attribute bag that fails validation
NoModel == "nomodel"             \* an event that is about no single model

\* model.cid: assigned at construction, unique per instance, never changed.
Cid(o) == CASE o = "o1" -> "c1" [] o = "o2" -> "c2" [] o = "o3" -> "c3" [] OTHER -> Undefined
Cids == {Cid(o) : o \in Objs}

\* Property keys of the _byId object: obj[key] converts key to a string, so
\* an undefined id addresses the property named "undefined".
UndefinedKey == "key:undefined"
ToKey(i) == IF i = NoId THEN UndefinedKey ELSE i
IdKeys == Ids \cup {UndefinedKey}

Range(s) == {s[i] : i \in 1..Len(s)}
SeqsUpTo(S, n) == UNION {[1..k -> S] : k \in 0..n}

VARIABLES id, rank, listeners, models, length, byId, byCid, comparator, events, last, fetches, saves

vars == <<id, rank, listeners, models, length, byId, byCid, comparator, events, last, fetches, saves>>

\* The objects and collections as one value, so that a method is an operator
\* from a world to the world it leaves behind.
World == [id |-> id, rank |-> rank, listeners |-> listeners, models |-> models, length |-> length, byId |-> byId, byCid |-> byCid, events |-> <<>>]

\* --------------------------------------------------------- Array helpers --

\* Array.prototype.indexOf, 0-based; -1 when absent.
indexOf(s, m) == IF \E i \in 1..Len(s) : s[i] = m THEN (CHOOSE i \in 1..Len(s) : s[i] = m /\ \A j \in 1..(i - 1) : s[j] # m) - 1 ELSE -1

\* The start index Array.prototype.splice uses: negative counts from the end,
\* and the result is clamped to 0..length.
spliceStart(s, start) == IF start < 0 THEN (IF Len(s) + start < 0 THEN 0 ELSE Len(s) + start) ELSE (IF start > Len(s) THEN Len(s) ELSE start)

\* s.splice(start, del, ...ins): the array afterwards.
splice(s, start, del, ins) ==
  LET b == spliceStart(s, start)
      d == IF del > Len(s) - b THEN Len(s) - b ELSE del
  IN SubSeq(s, 1, b) \o ins \o SubSeq(s, b + d + 1, Len(s))

\* All orders of the elements of s.
Perms(s) == {[i \in 1..Len(s) |-> s[f[i]]] : f \in {g \in [1..Len(s) -> 1..Len(s)] : \A i, j \in 1..Len(s) : g[i] = g[j] => i = j}}

\* _.sortBy(list, key) with key(m) = m.get('rank'): ascending by key, elements
\* with equal keys keep their order.
sortBy(s, rk) == CHOOSE p \in Perms(s) : \A i, j \in 1..Len(s) : i < j => (rk[p[i]] < rk[p[j]] \/ (rk[p[i]] = rk[p[j]] /\ indexOf(s, p[i]) < indexOf(s, p[j])))

\* The two-argument comparator of the model: descending rank.
compare(a, b, rk) == rk[b] - rk[a]

\* Array.prototype.sort(compare): some order the comparator agrees with; the
\* order of elements that compare equal is left to the engine.
arraySort(s, rk) == {p \in Perms(s) : \A i, j \in 1..Len(s) : i < j => compare(p[i], p[j], rk) <= 0}

\* ------------------------------------------------------------- lookups --

JsNull == "null"
EmptyString == ""
FalsyArgs == {Undefined, JsNull, EmptyString}
IsFalsy(v) == v \in FalsyArgs \/ v = Falsy

\* obj[key] on the _byId / _byCid objects: undefined for a key never set.
ById(w, c, key) == IF key \in IdKeys THEN w.byId[c][key] ELSE Undefined
ByCid(w, c, key) == IF key \in Cids THEN w.byCid[c][key] ELSE Undefined

\* get(id):  id && this._byId[id.id || id]
get(w, c, x) ==
  IF IsFalsy(x) THEN x
  ELSE IF x \in Objs THEN (IF w.id[x] # NoId THEN ById(w, c, w.id[x]) ELSE Undefined)
  ELSE ById(w, c, x)

\* getByCid(cid):  cid && this._byCid[cid.cid || cid]
getByCid(w, c, x) ==
  IF IsFalsy(x) THEN x
  ELSE IF x \in Objs THEN ByCid(w, c, Cid(x))
  ELSE ByCid(w, c, x)

\* at(index)
at(w, c, i) == IF i >= 0 /\ i < Len(w.models[c]) THEN w.models[c][i + 1] ELSE Undefined

\* pluck('rank')
pluck(w, c) == [i \in 1..Len(w.models[c]) |-> w.rank[w.models[c][i]]]

\* ------------------------------------------------ events and references --

\* What a listener of collection d can read of it while it is notified.
Seen(w, d) == [models |-> w.models[d], length |-> w.length[d], byId |-> w.byId[d], byCid |-> w.byCid[d]]

Event(d, ev, m, src, idx, seen) == [on |-> d, ev |-> ev, model |-> m, src |-> src, index |-> idx, seen |-> seen]
Options(silent, idx, prev) == [silent |-> silent, index |-> idx, prev |-> prev]

\* collection.trigger(ev, ...): the event reaches the collection's listeners.
collTrigger(w, d, ev, m, src, idx) == [w EXCEPT !.events = Append(@, Event(d, ev, m, src, idx, Seen(w, d)))]

\* _removeReference without `model.off('all', this._onModelEvent, this)`.
removeReferenceStaysOn(w, c, m) == w

\* _removeReference(model)
removeReference(w, c, m) == [w EXCEPT !.listeners[m] = SelectSeq(@, LAMBDA d : d # c)]

\* model.on('all', this._onModelEvent, this)
modelOn(w, c, m) == [w EXCEPT !.listeners[m] = Append(@, c)]

\* _reset()
resetState(w, c) == [w EXCEPT !.length[c] = 0, !.models[c] = <<>>, !.byId[c] = [k \in IdKeys |-> Undefined], !.byCid[c] = [k \in Cids |-> Undefined]]

\* _prepareModel(model, options): the model to add, or false.  A raw bag that
\* validates yields a new instance, so it is given as the instance it
\* constructs; BadAttrs is a bag that does not validate.  (The back pointer
\* model.collection, which no collection method reads, is not modelled.)
prepareModel(w, c, x) ==
  IF x \in Objs
  THEN [model |-> x, w |-> w]
  ELSE [model |-> Falsy, w |-> w]

RECURSIVE deliver(_, _, _, _, _, _, _)
RECURSIVE remove(_, _, _, _)

\* _onModelEvent without `delete this._byId[model.previous('objectId')]`.
onModelEventKeepsPrevious(w, d, ev, m, src, o) ==
  IF (ev = "add" \/ ev = "remove") /\ src # d THEN w
  ELSE LET w1 == IF ev = "destroy" THEN remove(w, d, <<m>>, o.silent) ELSE w
           w2 == IF ev = "change:objectId" THEN [w1 EXCEPT !.byId[d][ToKey(w1.id[m])] = m] ELSE w1
       IN collTrigger(w2, d, ev, m, src, o.index)

\* _onModelEvent without the test of the collection an add or remove event
\* comes from.
onModelEventHearsAll(w, d, ev, m, src, o) ==
  LET w1 == IF ev = "destroy" THEN remove(w, d, <<m>>, o.silent) ELSE w
      w2 == IF ev = "change:objectId" THEN [w1 EXCEPT !.byId[d] = [[@ EXCEPT ![ToKey(o.prev)] = Undefined] EXCEPT ![ToKey(w1.id[m])] = m]] ELSE w1
  IN collTrigger(w2, d, ev, m, src, o.index)

\* _onModelEvent(ev, model, collection, options) of collection d.
onModelEvent(w, d, ev, m, src, o) ==
  IF (ev = "add" \/ ev = "remove") /\ src # d THEN w
  ELSE LET w1 == IF ev = "destroy" THEN remove(w, d, <<m>>, o.silent) ELSE w
           w2 == IF ev = "change:objectId" THEN [w1 EXCEPT !.byId[d] = [[@ EXCEPT ![ToKey(o.prev)] = Undefined] EXCEPT ![ToKey(w1.id[m])] = m]] ELSE w1
       IN collTrigger(w2, d, ev, m, src, o.index)

\* model.trigger(ev, model, src, options): every callback registered when the
\* event is triggered runs, in the order of registration.
deliver(w, ls, i, ev, m, src, o) ==
  IF i > Len(ls) THEN w
  ELSE deliver(onModelEvent(w, ls[i], ev, m, src, o), ls, i + 1, ev, m, src, o)

modelTrigger(w, ev, m, src, o) == deliver(w, w.listeners[m], 1, ev, m, src, o)

\* removeOne without `delete this._byCid[model.cid]`.
removeOneKeepsCid(w, c, x, silent) ==
  LET found == IF IsFalsy(getByCid(w, c, x)) THEN get(w, c, x) ELSE getByCid(w, c, x)
  IN IF IsFalsy(found) THEN w
     ELSE LET index == indexOf(w.models[c], found)
              w1 == [w EXCEPT !.byId[c][ToKey(w.id[found])] = Undefined, !.models[c] = splice(@, index, 1, <<>>), !.length[c] = @ - 1]
              w2 == IF silent THEN w1 ELSE modelTrigger(w1, "remove", found, c, Options(silent, index, NoId))
          IN removeReference(w2, c, found)

\* removeOne without `delete this._byId[model.id]`.
removeOneKeepsId(w, c, x, silent) ==
  LET found == IF IsFalsy(getByCid(w, c, x)) THEN get(w, c, x) ELSE getByCid(w, c, x)
  IN IF IsFalsy(found) THEN w
     ELSE LET index == indexOf(w.models[c], found)
              w1 == [w EXCEPT !.byCid[c][Cid(found)] = Undefined, !.models[c] = splice(@, index, 1, <<>>), !.length[c] = @ - 1]
              w2 == IF silent THEN w1 ELSE modelTrigger(w1, "remove", found, c, Options(silent, index, NoId))
          IN removeReference(w2, c, found)

\* removeOne with the remove event triggered as soon as the model is found,
\* before it is taken out of the indexes and of models.
removeOneNotifiesFirst(w, c, x, silent) ==
  LET found == IF IsFalsy(getByCid(w, c, x)) THEN get(w, c, x) ELSE getByCid(w, c, x)
  IN IF IsFalsy(found) THEN w
     ELSE LET index == indexOf(w.models[c], found)
              w1 == IF silent THEN w ELSE modelTrigger(w, "remove", found, c, Options(silent, index, NoId))
              w2 == [w1 EXCEPT !.byId[c][ToKey(w.id[found])] = Undefined, !.byCid[c][Cid(found)] = Undefined, !.models[c] = splice(@, index, 1, <<>>), !.length[c] = @ - 1]
          IN removeReference(w2, c, found)

\* removeOne with the index looked up after the splice instead of before.
removeOneLooksUpAfter(w, c, x, silent) ==
  LET found == IF IsFalsy(getByCid(w, c, x)) THEN get(w, c, x) ELSE getByCid(w, c, x)
  IN IF IsFalsy(found) THEN w
     ELSE LET w1 == [w EXCEPT !.byId[c][ToKey(w.id[found])] = Undefined, !.byCid[c][Cid(found)] = Undefined, !.models[c] = splice(@, indexOf(w.models[c], found), 1, <<>>), !.length[c] = @ - 1]
              index == indexOf(w1.models[c], found)
              w2 == IF silent THEN w1 ELSE modelTrigger(w1, "remove", found, c, Options(silent, index, NoId))
          IN removeReference(w2, c, found)

\* One pass of remove's loop, for the item x.
removeOne(w, c, x, silent) ==
  LET found == IF IsFalsy(getByCid(w, c, x)) THEN get(w, c, x) ELSE getByCid(w, c, x)
  IN IF IsFalsy(found) THEN w
     ELSE LET index == indexOf(w.models[c], found)
              w1 == [w EXCEPT !.byId[c][ToKey(w.id[found])] = Undefined, !.byCid[c][Cid(found)] = Undefined, !.models[c] = splice(@, index, 1, <<>>), !.length[c] = @ - 1]
              w2 == IF silent THEN w1 ELSE modelTrigger(w1, "remove", found, c, Options(silent, index, NoId))
          IN removeReference(w2, c, found)

\* remove(models, options)
remove(w, c, items, silent) ==
  IF items = <<>> THEN w
  ELSE remove(removeOne(w, c, Head(items), silent), c, Tail(items), silent)

\* -------------------------------------------------------- sort and add --

Result(w, ok, err) == [w |-> w, ok |-> ok, err |-> err]

\* The orders sort() may leave models in: _.sortBy for a one-argument
\* comparator ("key"), Array.prototype.sort for a two-argument one ("cmp").
sortedModels(w, c) == IF comparator[c] = "key" THEN {sortBy(w.models[c], w.rank)} ELSE arraySort(w.models[c], w.rank)

\* sort(options): the possible outcomes.
sort(w, c, silent) ==
  IF comparator[c] = "none" THEN {Result(w, FALSE, "nocomparator")}
  ELSE {Result(IF silent THEN [w EXCEPT !.models[c] = p] ELSE collTrigger([w EXCEPT !.models[c] = p], c, "reset", NoModel, c, -1), TRUE, "none") : p \in sortedModels(w, c)}

RECURSIVE addPrepareIndexesAsItGoes(_, _, _, _, _, _)
\* addPrepare with the two loops of add fused: each item is listened to and
\* indexed as soon as it has passed the checks.
addPrepareIndexesAsItGoes(w, c, items, i, cids, ids) ==
  IF i > Len(items) THEN Result(w, TRUE, "none")
  ELSE LET p == prepareModel(w, c, items[i])
           m == p.model
       IN IF m = Falsy THEN Result(p.w, FALSE, "invalid")
          ELSE IF Cid(m) \in cids \/ ~IsFalsy(ByCid(p.w, c, Cid(m))) THEN Result(p.w, FALSE, "duplicate cid")
          ELSE IF p.w.id[m] # NoId /\ (ToKey(p.w.id[m]) \in ids \/ ~IsFalsy(ById(p.w, c, p.w.id[m]))) THEN Result(p.w, FALSE, "duplicate id")
          ELSE addPrepareIndexesAsItGoes([modelOn(p.w, c, m) EXCEPT !.byCid[c][Cid(m)] = m], c, items, i + 1, cids \cup {Cid(m)}, ids \cup {ToKey(p.w.id[m])})

RECURSIVE addPrepareChecksEveryId(_, _, _, _, _, _)
\* addPrepare without `!Parse._isNullOrUndefined(id)`: the id is looked up in
\* ids and _byId also when the model has none.
addPrepareChecksEveryId(w, c, items, i, cids, ids) ==
  IF i > Len(items) THEN Result(w, TRUE, "none")
  ELSE LET p == prepareModel(w, c, items[i])
           m == p.model
       IN IF m = Falsy THEN Result(p.w, FALSE, "invalid")
          ELSE IF Cid(m) \in cids \/ ~IsFalsy(ByCid(p.w, c, Cid(m))) THEN Result(p.w, FALSE, "duplicate cid")
          ELSE IF ToKey(p.w.id[m]) \in ids \/ ~IsFalsy(ById(p.w, c, ToKey(p.w.id[m]))) THEN Result(p.w, FALSE, "duplicate id")
          ELSE addPrepareChecksEveryId(p.w, c, items, i + 1, cids \cup {Cid(m)}, ids \cup {ToKey(p.w.id[m])})

RECURSIVE addPrepare(_, _, _, _, _, _)
\* add, first loop (from item i on): prepare every item and refuse invalid
\* and duplicate ones; cids and ids are the keys seen so far in the batch.
addPrepare(w, c, items, i, cids, ids) ==
  IF i > Len(items) THEN Result(w, TRUE, "none")
  ELSE LET p == prepareModel(w, c, items[i])
           m == p.model
       IN IF m = Falsy THEN Result(p.w, FALSE, "invalid")
          ELSE IF Cid(m) \in cids \/ ~IsFalsy(ByCid(p.w, c, Cid(m))) THEN Result(p.w, FALSE, "duplicate cid")
          ELSE IF p.w.id[m] # NoId /\ (ToKey(p.w.id[m]) \in ids \/ ~IsFalsy(ById(p.w, c, p.w.id[m]))) THEN Result(p.w, FALSE, "duplicate id")
          ELSE addPrepare(p.w, c, items, i + 1, cids \cup {Cid(m)}, ids \cup {ToKey(p.w.id[m])})

RECURSIVE addIndex(_, _, _, _)
\* add, second loop: listen to each model and index it.
addIndex(w, c, items, i) ==
  IF i > Len(items) THEN w
  ELSE LET m == items[i]
           w1 == [modelOn(w, c, m) EXCEPT !.byCid[c][Cid(m)] = m]
           w2 == IF w1.id[m] # NoId THEN [w1 EXCEPT !.byId[c][ToKey(w1.id[m])] = m] ELSE w1
       IN addIndex(w2, c, items, i + 1)

\* addInsert with the length counted up by one whatever the batch holds.
addInsertCountsOne(w, c, items, atOpt) ==
  LET index == IF atOpt = <<>> THEN Len(w.models[c]) ELSE atOpt[1]
  IN [w EXCEPT !.length[c] = @ + 1, !.models[c] = splice(@, index, 0, items)]

\* add, insertion: length, then the splice at options.at (default: the end).
addInsert(w, c, items, atOpt) ==
  LET index == IF atOpt = <<>> THEN Len(w.models[c]) ELSE atOpt[1]
  IN [w EXCEPT !.length[c] = @ + Len(items), !.models[c] = splice(@, index, 0, items)]

\* addSort without the sort.
addSortSkips(w, c) == {w}

\* add, the sort that follows the insertion when a comparator is set.
addSort(w, c) == IF comparator[c] # "none" THEN {r.w : r \in sort(w, c, TRUE)} ELSE {w}

RECURSIVE addEventsNotifiesAll(_, _, _, _)
\* addEvents without the test `cids[model.cid]`: an add event for every
\* model the collection holds.
addEventsNotifiesAll(w, c, cids, i) ==
  IF i > Len(w.models[c]) THEN w
  ELSE addEventsNotifiesAll(modelTrigger(w, "add", w.models[c][i], c, Options(FALSE, i - 1, NoId)), c, cids, i + 1)

RECURSIVE addEvents(_, _, _, _)
\* add, last loop: an `add` event for every model of the batch, by position.
addEvents(w, c, cids, i) ==
  IF i > Len(w.models[c]) THEN w
  ELSE LET m == w.models[c][i]
       IN addEvents(IF Cid(m) \in cids THEN modelTrigger(w, "add", m, c, Options(FALSE, i - 1, NoId)) ELSE w, c, cids, i + 1)

\* add(models, options): the possible outcomes.
add(w, c, items, atOpt, silent) ==
  LET p == addPrepare(w, c, items, 1, {}, {})
  IN IF ~p.ok THEN {p}
     ELSE {Result(IF silent THEN w3 ELSE addEvents(w3, c, {Cid(m) : m \in Range(items)}, 1), TRUE, "none") : w3 \in addSort(addInsert(addIndex(p.w, c, items, 1), c, items, atOpt), c)}

RECURSIVE removeReferences(_, _, _)
\* reset: _removeReference for every current model.
removeReferences(w, c, ms) == IF ms = <<>> THEN w ELSE removeReferences(removeReference(w, c, Head(ms)), c, Tail(ms))

\* reset with its own options handed to add, instead of {silent: true}.
resetAddsAloud(w, c, items, silent) ==
  {IF r.ok /\ ~silent THEN Result(collTrigger(r.w, c, "reset", NoModel, c, -1), TRUE, "none") ELSE r : r \in add(resetState(removeReferences(w, c, w.models[c]), c), c, items, <<>>, silent)}

\* reset with the collection put back as it was when its add throws.
resetRestoresOnFailure(w, c, items, silent) ==
  {IF r.ok THEN (IF ~silent THEN Result(collTrigger(r.w, c, "reset", NoModel, c, -1), TRUE, "none") ELSE r) ELSE Result(w, FALSE, r.err) : r \in add(resetState(removeReferences(w, c, w.models[c]), c), c, items, <<>>, TRUE)}

\* reset(models, options): the possible outcomes.
reset(w, c, items, silent) ==
  {IF r.ok /\ ~silent THEN Result(collTrigger(r.w, c, "reset", NoModel, c, -1), TRUE, "none") ELSE r : r \in add(resetState(removeReferences(w, c, w.models[c]), c), c, items, <<>>, TRUE)}

\* ----------------------------------------------------------- the state --

Commit(w) ==
  /\ id' = w.id /\ rank' = w.rank /\ listeners' = w.listeners
  /\ models' = w.models /\ length' = w.length /\ byId' = w.byId /\ byCid' = w.byCid
  /\ events' = w.events

\* The operation that has just run, for whoever called it: its name, its
\* collection, how it ended ("none": it returned; otherwise what it threw or
\* was rejected with), its options (flag: options.add of a fetch, options.wait of
\* a create) and its arguments.  `events` holds the
\* events the collections emitted while it ran.
\* For a reset, `had` is the number of members the collection had when it was
\* called.  For a fetch that has settled, `fetch` tells where it stood among the fetches
\* in flight (1: issued first), how many there were, and whether a fetch issued
\* after it had reset the collection before it settled.
NoFetch == [index |-> 0, inflight |-> 0, overtaken |-> FALSE]
Last(op, c, err, silent, items, atOpt, m, flag) == [op |-> op, coll |-> c, err |-> err, silent |-> silent, items |-> items, at |-> atOpt, model |-> m, flag |-> flag, fetch |-> NoFetch, had |-> 0]
IdleLast == Last("idle", NoColl, "none", FALSE, <<>>, <<>>, NoModel, FALSE)
Idle == last = IdleLast

Items == Objs \cup {BadAttrs}
Batches == SeqsUpTo(Items, MaxBatch)
RemoveItems == Objs \cup {"c1", "a"}
RemoveBatches == SeqsUpTo(RemoveItems, MaxBatch)
AtOpts == {<<>>, <<0>>}
Comparators == {"none", "key", "cmp"}
Failures == {"E1", "E2"}          \* what a find or a save is rejected with

\* Every collection has been constructed, empty, with its comparator option;
\* the objects exist, saved or not, and belong to no collection.
InitState ==
  /\ rank = [o \in Objs |-> IF o = "o2" THEN 1 ELSE 2]
  /\ listeners = [o \in Objs |-> <<>>]
  /\ models = [c \in Colls |-> <<>>]
  /\ length = [c \in Colls |-> 0]
  /\ byId = [c \in Colls |-> [k \in IdKeys |-> Undefined]]
  /\ byCid = [c \in Colls |-> [k \in Cids |-> Undefined]]
  /\ events = <<>>
  /\ last = IdleLast
  /\ fetches = <<>>
  /\ saves = {}

\* The caller and the listeners have taken note of the outcome of the last
\* operation; the single thread is free for the next one.
Observe ==
  /\ ~Idle
  /\ last' = IdleLast
  /\ events' = <<>>
  /\ UNCHANGED <<id, rank, listeners, models, length, byId, byCid, comparator, fetches, saves>>

Add(c) ==
  /\ Idle
  /\ \E items \in Batches, atOpt \in AtOpts, silent \in BOOLEAN :
       \E r \in add(World, c, items, atOpt, silent) :
         /\ Commit(r.w)
         /\ last' = Last("add", c, r.err, silent, items, atOpt, NoModel, FALSE)
         /\ UNCHANGED <<comparator, fetches, saves>>

Remove(c) ==
  /\ Idle
  /\ \E items \in RemoveBatches, silent \in BOOLEAN :
       /\ Commit(remove(World, c, items, silent))
       /\ last' = Last("remove", c, "none", silent, items, <<>>, NoModel, FALSE)
       /\ UNCHANGED <<comparator, fetches, saves>>

Reset(c) ==
  /\ Idle
  /\ \E items \in Batches, silent \in BOOLEAN :
       \E r \in reset(World, c, items, silent) :
         /\ Commit(r.w)
         /\ last' = [Last("reset", c, r.err, silent, items, <<>>, NoModel, FALSE) EXCEPT !.had = Len(models[c])]
         /\ UNCHANGED <<comparator, fetches, saves>>

Sort(c) ==
  /\ Idle
  /\ \E silent \in BOOLEAN :
       \E r \in sort(World, c, silent) :
         /\ Commit(r.w)
         /\ last' = Last("sort", c, r.err, silent, <<>>, <<>>, NoModel, FALSE)
         /\ UNCHANGED <<comparator, fetches, saves>>

\* model.destroy(options) has succeeded: the object triggers `destroy`, which
\* reaches the collections listening to it.
Destroy(m) ==
  /\ Idle
  /\ \E silent \in BOOLEAN :
       /\ listeners[m] # <<>>
       /\ Commit(modelTrigger(World, "destroy", m, NoColl, Options(silent, -1, NoId)))
       /\ last' = Last("destroy", NoColl, "none", silent, <<>>, <<>>, m, FALSE)
       /\ UNCHANGED <<comparator, fetches, saves>>

\* The ids the server may give the object m: distinct server objects have
\* distinct ids, so none that another instance holds.
FreshIds(m) == {i \in Ids : \A o \in Objs : id[o] # i}

\* The server id of a model is assigned, changed or cleared: the object
\* triggers `change:objectId`; previous('objectId') is the id it had.
ChangeObjectId(m) ==
  /\ Idle
  /\ \E new \in FreshIds(m) \cup {NoId} :
       /\ new # id[m]
       /\ Commit(modelTrigger([World EXCEPT !.id[m] = new], "change:objectId", m, NoColl, Options(FALSE, -1, id[m])))
       /\ last' = Last("change:objectId", NoColl, "none", FALSE, <<id[m], new>>, <<>>, m, FALSE)
       /\ UNCHANGED <<comparator, fetches, saves>>

\* An attribute a comparator reads is set: the object triggers `change:rank`.
ChangeRank(m) ==
  /\ Idle
  /\ \E r \in Ranks :
       /\ r # rank[m]
       /\ Commit(modelTrigger([World EXCEPT !.rank[m] = r], "change:rank", m, NoColl, Options(FALSE, -1, NoId)))
       /\ last' = Last("change:rank", NoColl, "none", FALSE, <<>>, <<>>, m, FALSE)
       /\ UNCHANGED <<comparator, fetches, saves>>

\* ------------------------------------------------------ fetch, create --

RemoveAt(s, i) == SubSeq(s, 1, i - 1) \o SubSeq(s, i + 1, Len(s))
IsRepeatFree(s) == \A i, j \in 1..Len(s) : s[i] = s[j] => i = j

\* What a find can resolve to: new instances of saved objects, one per server
\* object.
FindResults == {s \in SeqsUpTo(Objs, MaxBatch) : IsRepeatFree(s) /\ \A i \in 1..Len(s) : id[s[i]] # NoId /\ listeners[s[i]] = <<>> /\ \A j \in 1..Len(s) : id[s[i]] = id[s[j]] => i = j}

\* What create is handed: the attributes of a new model (given as the unsaved
\* instance they construct), or attributes that do not validate.
NewModels == {o \in Objs : id[o] = NoId /\ listeners[o] = <<>> /\ \A s \in saves : s.model # o}

\* fetch(options), up to the call of query.find: the find is in flight.
Fetch(c) ==
  /\ Idle
  /\ Len(fetches) < MaxInFlight
  /\ \E addOpt \in BOOLEAN, silent \in BOOLEAN :
       fetches' = Append(fetches, [coll |-> c, add |-> addOpt, silent |-> silent, overtaken |-> FALSE])
  /\ UNCHANGED <<id, rank, listeners, models, length, byId, byCid, comparator, events, last, saves>>

\* fetchResolved with the results of a fetch dropped when a fetch issued after
\* it has reset the collection already.
fetchResolvedDropsStale(w, f, results) == IF f.overtaken THEN {Result(w, TRUE, "none")} ELSE IF f.add THEN add(w, f.coll, results, <<>>, f.silent) ELSE reset(w, f.coll, results, f.silent)

\* fetch, the callback given to then(): add or reset with the results.
fetchResolved(w, f, results) == IF f.add THEN add(w, f.coll, results, <<>>, f.silent) ELSE reset(w, f.coll, results, f.silent)

\* fetch with the callback given to then() run on rejection too, with no
\* results.
fetchRejectedResets(w, f, e) == CHOOSE r \in {Result(x.w, FALSE, e) : x \in reset(w, f.coll, <<>>, f.silent)} : TRUE

\* fetch: a rejected find passes the then(), which has no error callback, and
\* _thenRunCallbacks: the promise fetch returned is rejected with the same error.
fetchRejected(w, f, e) == Result(w, FALSE, e)

\* The fetches still in flight once fetch i has settled by running `settled`
\* (reset or add): those issued before it have been overtaken by a reset.
StillInFlight(i, settled) == RemoveAt([j \in 1..Len(fetches) |-> IF j < i /\ settled = "reset" THEN [fetches[j] EXCEPT !.overtaken = TRUE] ELSE fetches[j]], i)

FetchDone(i) ==
  /\ Idle
  /\ i \in 1..Len(fetches)
  /\ \E results \in FindResults :
       \E r \in fetchResolved(World, fetches[i], results) :
         /\ Commit(r.w)
         /\ last' = [Last("fetch:done", fetches[i].coll, r.err, fetches[i].silent, results, <<>>, NoModel, fetches[i].add) EXCEPT !.fetch = [index |-> i, inflight |-> Len(fetches), overtaken |-> fetches[i].overtaken]]
  /\ fetches' = StillInFlight(i, IF fetches[i].add THEN "add" ELSE "reset")
  /\ UNCHANGED <<comparator, saves>>

FetchFail(i) ==
  /\ Idle
  /\ i \in 1..Len(fetches)
  /\ \E e \in Failures :
       LET r == fetchRejected(World, fetches[i], e)
       IN /\ Commit(r.w)
          /\ last' = Last("fetch:fail", fetches[i].coll, r.err, fetches[i].silent, <<e>>, <<>>, NoModel, fetches[i].add)
  /\ fetches' = RemoveAt(fetches, i)
  /\ UNCHANGED <<comparator, saves>>

\* create without the test of options.wait: the model is added at once.
createAddsAtOnce(w, c, x, wait, silent) ==
  LET p == prepareModel(w, c, x)
  IN IF p.model = Falsy THEN {[w |-> p.w, err |-> "false", saving |-> FALSE]}
     ELSE {[w |-> r.w, err |-> r.err, saving |-> r.ok] : r \in add(p.w, c, <<p.model>>, <<>>, silent)}

\* create(model, options) up to its return: the outcomes, with whether
\* model.save was called.
create(w, c, x, wait, silent) ==
  LET p == prepareModel(w, c, x)
  IN IF p.model = Falsy THEN {[w |-> p.w, err |-> "false", saving |-> FALSE]}
     ELSE IF ~wait THEN {[w |-> r.w, err |-> r.err, saving |-> r.ok] : r \in add(p.w, c, <<p.model>>, <<>>, silent)}
     ELSE {[w |-> p.w, err |-> "none", saving |-> TRUE]}

Create(c) ==
  /\ Idle
  /\ Cardinality(saves) < MaxInFlight
  /\ \E x \in NewModels \cup {BadAttrs}, wait \in BOOLEAN, silent \in BOOLEAN, success \in BOOLEAN :
       \E r \in create(World, c, x, wait, silent) :
         /\ Commit(r.w)
         /\ last' = Last("create", c, r.err, silent, <<>>, <<>>, x, wait)
         /\ saves' = IF r.saving THEN saves \cup {[model |-> x, coll |-> c, wait |-> wait, silent |-> silent, success |-> success]} ELSE saves
  /\ UNCHANGED <<comparator, fetches>>

\* create, options.success: add the model now if the create waited, then the
\* caller's success callback or, without one, the `sync` event.
createSuccess(w, s) ==
  LET added == IF s.wait THEN add(w, s.coll, <<s.model>>, <<>>, s.silent) ELSE {Result(w, TRUE, "none")}
  IN {IF r.ok /\ ~s.success THEN Result(modelTrigger(r.w, "sync", s.model, NoColl, Options(s.silent, -1, NoId)), TRUE, "none") ELSE r : r \in added}

\* The save of a created model succeeds: the server gives a model without an
\* id its id (the object triggers `change:objectId`), then options.success runs.
SaveDone(s) ==
  /\ Idle
  /\ s \in saves
  /\ \E new \in (IF id[s.model] = NoId THEN FreshIds(s.model) ELSE {id[s.model]}) :
       LET w0 == IF new = id[s.model] THEN World ELSE modelTrigger([World EXCEPT !.id[s.model] = new], "change:objectId", s.model, NoColl, Options(FALSE, -1, id[s.model]))
       IN \E r \in createSuccess(w0, s) :
            /\ Commit(r.w)
            /\ last' = Last("save:done", s.coll, r.err, s.silent, <<>>, <<>>, s.model, s.wait)
  /\ saves' = saves \ {s}
  /\ UNCHANGED <<comparator, fetches>>

\* saveRejected with the collection taking the model out again.
saveRejectedRollsBack(w, s, e) == Result(remove(w, s.coll, <<s.model>>, s.silent), FALSE, e)

\* create: model.save is rejected; create gave it no error callback of its own
\* and options.success never runs, so no collection code does.
saveRejected(w, s, e) == Result(w, FALSE, e)

\* The save fails: options.success never runs; the collection is not told.
SaveFail(s) ==
  /\ Idle
  /\ s \in saves
  /\ \E e \in Failures :
       LET r == saveRejected(World, s, e)
       IN /\ Commit(r.w)
          /\ last' = Last("save:fail", s.coll, r.err, s.silent, <<>>, <<>>, s.model, s.wait)
  /\ saves' = saves \ {s}
  /\ UNCHANGED <<comparator, fetches>>

\* --------------------------------------------------- one collection, A --

Init ==
  /\ InitState
  /\ id \in [Objs -> Ids \cup {NoId}]
  /\ comparator \in {[c \in Colls |-> IF c = "A" THEN k ELSE "none"] : k \in Comparators}

Next ==
  \/ Add("A")
  \/ Remove("A")
  \/ Reset("A")
  \/ Sort("A")
  \/ \E m \in Objs : Destroy(m)
  \/ \E m \in Objs : ChangeObjectId(m)
  \/ Observe

Spec == Init /\ [][Next]_vars

\* ------------------------------------- one collection, fetch and create --

\* Two instances of one saved object, as two finds return them, and an unsaved
\* object.
InitAsync ==
  /\ InitState
  /\ id = [o \in Objs |-> IF o = "o3" THEN NoId ELSE "a"]
  /\ comparator \in {[c \in Colls |-> IF c = "A" THEN k ELSE "none"] : k \in {"none", "key"}}

NextAsync ==
  \/ Fetch("A")
  \/ \E i \in 1..MaxInFlight : FetchDone(i)
  \/ \E i \in 1..MaxInFlight : FetchFail(i)
  \/ Create("A")
  \/ \E s \in saves : SaveDone(s)
  \/ \E s \in saves : SaveFail(s)
  \/ \E m \in Objs : Destroy(m)
  \/ Observe

SpecAsync == InitAsync /\ [][NextAsync]_vars

\* ------------------------------------------- one collection, comparator --

InitSort ==
  /\ InitState
  /\ id = [o \in Objs |-> IF o = "o3" THEN NoId ELSE IF o = "o2" THEN "b" ELSE "a"]
  /\ comparator \in {[c \in Colls |-> IF c = "A" THEN k ELSE "none"] : k \in {"key", "cmp"}}

NextSort ==
  \/ Add("A")
  \/ Reset("A")
  \/ Sort("A")
  \/ \E m \in Objs : ChangeRank(m)
  \/ Create("A")
  \/ \E s \in saves : SaveDone(s)
  \/ Observe

SpecSort == InitSort /\ [][NextSort]_vars

\* ------------------------------------------------- two collections, A, B --

InitTwo ==
  /\ InitState
  /\ id \in {[o \in Objs |-> IF o = "o3" THEN NoId ELSE "a"], [o \in Objs |-> IF o = "o3" THEN NoId ELSE IF o = "o2" THEN "b" ELSE "a"]}
  /\ comparator = [c \in Colls |-> "none"]

NextTwo ==
  \/ \E c \in Colls : Add(c)
  \/ \E c \in Colls : Remove(c)
  \/ \E m \in Objs : Destroy(m)
  \/ Observe

SpecTwo == InitTwo /\ [][NextTwo]_vars

\* ================================================================ claims ==

Members(c) == Range(models[c])
Subscribed(c) == {m \in Objs : \E i \in 1..Len(listeners[m]) : listeners[m][i] = c}
Emitted(c, ev) == {i \in 1..Len(events) : events[i].on = c /\ events[i].ev = ev}

\* C1: after every operation (add, remove, reset, sort, a member's destroy or
\* change:objectId event), whether it returned or threw, the cached length of
\* every collection is the number of elements of its models.
C1_LengthIsCount == \A c \in Colls : length[c] = Len(models[c])

\* C1 witness: a destroy event has taken a member out of a collection of two.
C1_Witness == last.op = "destroy" /\ Len(models["A"]) = 1 /\ Emitted("A", "remove") # {}

\* C2: every element of models is the value of exactly one _byCid key, its own
\* cid; models holds no element twice; _byCid holds nothing that is not in
\* models.
C2_ByCidIsModels ==
  \A c \in Colls :
    /\ IsRepeatFree(models[c])
    /\ \A m \in Members(c) : \A k \in Cids : byCid[c][k] = m <=> k = Cid(m)
    /\ \A k \in Cids : byCid[c][k] # Undefined => byCid[c][k] \in Members(c)

\* C2 witness: a remove has left two of three members.
C2_Witness == last.op = "remove" /\ Len(models["A"]) = 2 /\ Emitted("A", "remove") # {}

\* C3: a member that has a server id is the value of exactly one _byId key,
\* its id; a member without a server id is the value of no _byId key; _byId
\* holds no non-member.
C3_ByIdIsSavedMembers ==
  \A c \in Colls :
    /\ \A m \in Members(c) : \A k \in IdKeys : byId[c][k] = m <=> (id[m] # NoId /\ k = id[m])
    /\ \A k \in IdKeys : byId[c][k] # Undefined => byId[c][k] \in Members(c)

\* The inputs add must refuse: an invalid one, two with one cid or one server
\* id, one whose cid or server id the collection has indexed.
AddMustFail(c, items) ==
  \/ \E i \in 1..Len(items) : items[i] \notin Objs
  \/ \E i, j \in 1..Len(items) : i # j /\ items[i] = items[j]
  \/ \E i, j \in 1..Len(items) : i # j /\ items[i] \in Objs /\ items[j] \in Objs /\ id[items[i]] # NoId /\ id[items[i]] = id[items[j]]
  \/ \E i \in 1..Len(items) : items[i] \in Objs /\ byCid[c][Cid(items[i])] # Undefined
  \/ \E i \in 1..Len(items) : items[i] \in Objs /\ id[items[i]] # NoId /\ byId[c][id[items[i]]] # Undefined

\* C4: add throws when an input is invalid, when two inputs share a cid or a
\* server id, or when an input's cid or server id is indexed already; and an
\* add that throws leaves models, length, _byId, _byCid and the listeners as
\* they were and emits no event.
C4_AddFailsAsAWhole ==
  [][last'.op = "add" =>
       /\ AddMustFail(last'.coll, last'.items) => last'.err # "none"
       /\ last'.err # "none" => (UNCHANGED <<models, length, byId, byCid, listeners>> /\ events' = <<>>)]_vars

\* C4 witness: an add of two items into a collection that has members was
\* refused for its second item, a second instance of a member's server object.
C4_Witness ==
  /\ last.op = "add" /\ last.err = "duplicate id" /\ Len(last.items) = 2
  /\ models["A"] # <<>>
  /\ last.items[1] \in Objs /\ byCid["A"][Cid(last.items[1])] = Undefined /\ (id[last.items[1]] = NoId \/ byId["A"][id[last.items[1]]] = Undefined)

\* C5: get(id) is the member whose server id is id, and undefined when there is
\* none; getByCid(cid) likewise for cids; so after a reset every saved item is
\* found under its id, and after a remove nothing is found under the ids of
\* the objects removed.
C5_GetFindsExactlyMembers ==
  \A c \in Colls :
    /\ \A i \in Ids : IF \E m \in Members(c) : id[m] = i THEN get(World, c, i) \in Members(c) /\ id[get(World, c, i)] = i ELSE get(World, c, i) = Undefined
    /\ \A k \in Cids : IF \E m \in Members(c) : Cid(m) = k THEN getByCid(World, c, k) \in Members(c) /\ Cid(getByCid(World, c, k)) = k ELSE getByCid(World, c, k) = Undefined
    /\ \A m \in Objs : getByCid(World, c, m) = (IF m \in Members(c) THEN m ELSE Undefined)
    /\ (last.op = "reset" /\ last.coll = c /\ last.err = "none") => \A i \in 1..Len(last.items) : id[last.items[i]] # NoId => get(World, c, id[last.items[i]]) = last.items[i]
    /\ (last.op = "remove" /\ last.coll = c) => \A i \in 1..Len(last.items) : last.items[i] \in Objs => (getByCid(World, c, last.items[i]) = Undefined /\ get(World, c, last.items[i]) = Undefined /\ (id[last.items[i]] # NoId => get(World, c, id[last.items[i]]) = Undefined))

\* C5 witness: remove(o1) has taken the saved member o1 out and left another.
C5_Witness ==
  /\ last.op = "remove" /\ last.items = <<"o1">> /\ id["o1"] # NoId
  /\ \E i \in Emitted("A", "remove") : events[i].model = "o1"
  /\ models["A"] # <<>>

\* C9: when a member triggers change:objectId with previous id old and new id
\* new, every collection listening to it afterwards has no _byId entry under
\* old, has the member under new, and has its models, length, _byCid and
\* every other _byId entry as before.
C9_RekeyMovesOneEntry ==
  [][(last'.op = "change:objectId" /\ last'.items[1] # NoId /\ last'.items[2] # NoId) =>
       \A c \in Colls : last'.model \in Members(c) =>
          /\ byId'[c][last'.items[1]] = Undefined
          /\ byId'[c][last'.items[2]] = last'.model
          /\ \A k \in IdKeys \ {last'.items[1], last'.items[2]} : byId'[c][k] = byId[c][k]
          /\ models'[c] = models[c] /\ length'[c] = length[c] /\ byCid'[c] = byCid[c]]_vars

\* C9 witness: the id of a member changed from "a" to "b" while another saved
\* member was indexed.
C9_Witness ==
  /\ last.op = "change:objectId" /\ last.items = <<"a", "b">>
  /\ last.model \in Members("A") /\ byId["A"]["b"] = last.model
  /\ byId["A"]["c"] \in Members("A") /\ Emitted("A", "change:objectId") # {}

\* models[c] is in the order the comparator of c asks for.
IsSorted(c) ==
  \A i, j \in 1..Len(models[c]) : i < j =>
     IF comparator[c] = "key" THEN rank[models[c][i]] <= rank[models[c][j]]
     ELSE compare(models[c][i], models[c][j], rank) <= 0

\* The operations that ran add to the end: add itself, reset, a fetch that
\* resolved, a create that did not wait, the save of a create that waited.
RanAdd ==
  /\ last.err = "none"
  /\ \/ last.op \in {"add", "reset", "fetch:done"}
     \/ last.op = "create" /\ ~last.flag
     \/ last.op = "save:done" /\ last.flag

\* C6: in a collection with a comparator, models is in the comparator's order
\* after every add that succeeded (also one with options.at, and the add of a
\* reset, a fetch or a create) and after every sort; and sort only reorders:
\* the members, length, _byId and _byCid are as before.
C6_SortedAfterAddAndSort ==
  [][\A c \in Colls : (last'.coll = c /\ comparator[c] # "none") =>
       /\ (RanAdd' \/ (last'.op = "sort" /\ last'.err = "none")) => IsSorted(c)'
       /\ last'.op = "sort" => (Members(c)' = Members(c) /\ UNCHANGED <<length, byId, byCid, listeners>>)]_vars

\* C6 witness: add([x, y], {at: 0}) of ranks 2, 1 into a collection sorted by
\* the key `rank` that has a member: pluck('rank') is ascending, y before x.
C6_Witness ==
  /\ last.op = "add" /\ last.err = "none" /\ last.at = <<0>> /\ Len(last.items) = 2
  /\ comparator["A"] = "key" /\ Len(models["A"]) = 3
  /\ rank[last.items[1]] = 2 /\ rank[last.items[2]] = 1
  /\ indexOf(models["A"], last.items[2]) < indexOf(models["A"], last.items[1])
  /\ pluck(World, "A") \in {<<1, 2, 2>>, <<1, 1, 2>>}

\* C6 witness for sort: a sort has run on a collection of three of two ranks.
C6_SortWitness == last.op = "sort" /\ last.err = "none" /\ Len(models["A"]) = 3 /\ rank[models["A"][1]] # rank[models["A"][3]]

\* C7: a model created with wait is not in models, not indexed and not
\* listened to while its save is in flight, and create(.., {wait: true})
\* emits nothing; it is a member once the save has succeeded.  A model created
\* without wait is a member, with its add event emitted unless silenced, when
\* create returns, its save still in flight.
C7_CreateWaits ==
  /\ \A s \in saves : s.wait => (s.model \notin Members(s.coll) /\ byCid[s.coll][Cid(s.model)] = Undefined /\ s.model \notin Subscribed(s.coll) /\ \A k \in IdKeys : byId[s.coll][k] # s.model)
  /\ (last.op = "create" /\ last.flag) => events = <<>>
  /\ (last.op = "save:done" /\ last.flag) => (last.err = "none" /\ last.model \in Members(last.coll) /\ byCid[last.coll][Cid(last.model)] = last.model /\ byId[last.coll][id[last.model]] = last.model)
  /\ (last.op = "create" /\ ~last.flag /\ last.err = "none") =>
       /\ last.model \in Members(last.coll) /\ byCid[last.coll][Cid(last.model)] = last.model
       /\ \E s \in saves : s.model = last.model /\ ~s.wait
       /\ ~last.silent => \E i \in Emitted(last.coll, "add") : events[i].model = last.model /\ models[last.coll][events[i].index + 1] = last.model

\* C7 witness: the save of a model created with wait has succeeded, and the
\* model has joined another member, with its add event.
C7_Witness ==
  /\ last.op = "save:done" /\ last.flag /\ ~last.silent
  /\ Len(models["A"]) = 2 /\ last.model \in Members("A")
  /\ \E i \in Emitted("A", "add") : events[i].model = last.model

\* C7 witness: a create with wait has returned and its save is in flight.
C7_WaitingWitness == last.op = "create" /\ last.flag /\ last.err = "none" /\ (\E s \in saves : s.model = last.model /\ s.wait) /\ models["A"] # <<>>

\* C8: when a member triggers destroy, every collection it was in has it no
\* longer in models, nor under its cid in _byCid, nor under its id in _byId,
\* has a length one less, and listens to it no more.
C8_DestroyRemoves ==
  [][last'.op = "destroy" =>
       \A c \in Colls : last'.model \in Members(c) =>
          /\ last'.model \notin Members(c)'
          /\ byCid'[c][Cid(last'.model)] = Undefined
          /\ byId'[c][ToKey(id[last'.model])] = Undefined /\ \A k \in IdKeys : byId'[c][k] # last'.model
          /\ length'[c] = length[c] - 1 /\ Len(models'[c]) = Len(models[c]) - 1
          /\ last'.model \notin Subscribed(c)']_vars

\* C8 witness: a saved object that was a member of A and of B has triggered
\* destroy, and both have re-broadcast it; A keeps another member.
C8_Witness ==
  /\ last.op = "destroy" /\ id[last.model] # NoId
  /\ Emitted("A", "destroy") # {} /\ Emitted("B", "destroy") # {}
  /\ models["A"] # <<>> /\ last.model \notin Members("A") \cup Members("B")

\* The collections and their listeners.
CollectionState == <<models, length, byId, byCid, listeners>>

\* C10: when the find of a fetch is rejected, the fetch is rejected with the
\* same error, the collection is as it was and emits nothing; when the save
\* of a create is rejected, the collection is as it was.
C10_FailuresLeaveStateIntact ==
  [][/\ last'.op = "fetch:fail" => (last'.err = last'.items[1] /\ UNCHANGED CollectionState /\ events' = <<>>)
     /\ last'.op = "save:fail" => (UNCHANGED CollectionState /\ events' = <<>>)]_vars

\* C10 witness: the find of a fetch was rejected with E2 while the collection
\* had members.
C10_Witness == last.op = "fetch:fail" /\ last.err = "E2" /\ models["A"] # <<>>

\* C10 witness: the save of a create without wait was rejected; the model is
\* still a member.
C10_SaveWitness == last.op = "save:fail" /\ ~last.flag /\ last.model \in Members("A")

\* C11: whenever a fetch without options.add settles, whatever its place among
\* the fetches in flight and whether or not a fetch issued after it has
\* settled already, it resets the collection to its own results: the members
\* are exactly its results (in their order without a comparator), length is
\* their number, _byCid and _byId hold exactly them, and the other fetches stay
\* in flight.
C11_LastFetchWins ==
  [][(last'.op = "fetch:done" /\ ~last'.flag) =>
       \A c \in Colls : last'.coll = c =>
          /\ last'.err = "none"
          /\ Members(c)' = Range(last'.items) /\ Len(models'[c]) = Len(last'.items)
          /\ comparator[c] = "none" => models'[c] = last'.items
          /\ length'[c] = Len(last'.items)
          /\ \A k \in Cids : byCid'[c][k] = (IF \E m \in Range(last'.items) : Cid(m) = k THEN CHOOSE m \in Range(last'.items) : Cid(m) = k ELSE Undefined)
          /\ \A k \in IdKeys : byId'[c][k] = (IF \E m \in Range(last'.items) : id'[m] = k THEN CHOOSE m \in Range(last'.items) : id'[m] = k ELSE Undefined)
          /\ Len(fetches') = Len(fetches) - 1]_vars

\* C11 witness: two fetches were in flight; the one issued second settled
\* first and reset the collection; now the one issued first has settled and
\* the collection holds its results, none in flight.
C11_Witness ==
  /\ last.op = "fetch:done" /\ ~last.flag /\ last.fetch.overtaken /\ last.fetch.index = 1
  /\ fetches = <<>> /\ last.items # <<>> /\ models["A"] = last.items

\* C11 witness: the fetch issued second of two settles first.
C11_OvertakingWitness == last.op = "fetch:done" /\ ~last.flag /\ last.fetch.index = 2 /\ last.fetch.inflight = 2 /\ Len(fetches) = 1 /\ fetches[1].overtaken /\ last.items # <<>>

\* C12: a reset(items) that succeeds emits, unless silent, exactly one event,
\* a reset event of the collection (no add, no remove, nothing from the sort
\* of the inner add), and none at all when silent; after it the members are
\* exactly the items, and every previous member that is not among them is in
\* neither index and is listened to no more.
C12_ResetEmitsOneReset ==
  [][(last'.op = "reset" /\ last'.err = "none") =>
       \A c \in Colls : last'.coll = c =>
          /\ ~last'.silent => (Len(events') = 1 /\ events'[1].ev = "reset" /\ events'[1].on = c)
          /\ last'.silent => events' = <<>>
          /\ Members(c)' = Range(last'.items) /\ Len(models'[c]) = Len(last'.items)
          /\ \A m \in Members(c) \ Range(last'.items) :
               /\ byCid'[c][Cid(m)] = Undefined
               /\ \A k \in IdKeys : byId'[c][k] # m
               /\ m \notin Subscribed(c)']_vars

\* C12 witness: a reset with two items, not silent, of a collection sorted by
\* a comparator, which has put the items in another order than given; one
\* reset event was emitted, the collection had members before, and the third
\* object is not listened to.
C12_Witness ==
  /\ last.op = "reset" /\ last.err = "none" /\ ~last.silent /\ Len(last.items) = 2
  /\ comparator["A"] # "none" /\ models["A"] # last.items
  /\ Len(events) = 1 /\ events[1].ev = "reset"
  /\ Subscribed("A") = Range(last.items) /\ last.had > 0

\* C13: an add to, or a remove from, one collection makes no other collection
\* emit anything and leaves the models, length, _byId and _byCid of every
\* other collection as they were, also when the object is a member of both;
\* and every add or remove event a collection emits has that collection as its
\* source.
C13_OtherCollectionsKeepQuiet ==
  [][/\ last'.op \in {"add", "remove"} =>
          \A d \in Colls : d # last'.coll =>
             /\ \A i \in 1..Len(events') : events'[i].on # d
             /\ models'[d] = models[d] /\ length'[d] = length[d] /\ byId'[d] = byId[d] /\ byCid'[d] = byCid[d]
     /\ \A i \in 1..Len(events') : events'[i].ev \in {"add", "remove"} => events'[i].src = events'[i].on]_vars

\* C13 witness: an object that is a member of A and of B has been removed from
\* B, not silently: B has emitted remove, A nothing, and A still has it.
C13_Witness ==
  /\ last.op = "remove" /\ last.coll = "B" /\ ~last.silent /\ Len(last.items) = 1
  /\ last.items[1] \in Members("A") /\ last.items[1] \in Subscribed("A") /\ last.items[1] \notin Members("B")
  /\ \E i \in Emitted("B", "remove") : events[i].model = last.items[1]
  /\ \A i \in 1..Len(events) : events[i].on = "B"

\* C13 witness: a member of A has been added to B, not silently: B has emitted
\* add, A nothing.
C13_AddWitness ==
  /\ last.op = "add" /\ last.coll = "B" /\ ~last.silent /\ last.err = "none" /\ Len(last.items) = 1
  /\ last.items[1] \in Members("A") /\ last.items[1] \in Members("B") /\ listeners[last.items[1]] = <<"A", "B">>
  /\ \E i \in Emitted("B", "add") : events[i].model = last.items[1]
  /\ \A i \in 1..Len(events) : events[i].on = "B"

\* C14: when a create without wait returns, its model is a member, the save is
\* in flight and, unless the create was silent, the collection has emitted an
\* add event for the model, whose listeners saw it in models; and when the save
\* of such a create is rejected, a model that was still a member stays one, in
\* models and _byCid, length and models are as they were, and the collection
\* emits no remove and no sync event.
C14_OptimisticAddStays ==
  [][\A c \in Colls : last'.coll = c =>
       /\ (last'.op = "create" /\ ~last'.flag /\ last'.err = "none") =>
            /\ last'.model \in Members(c)'
            /\ \E s \in saves' \ saves : s.model = last'.model
            /\ ~last'.silent => \E i \in 1..Len(events') : events'[i].on = c /\ events'[i].ev = "add" /\ events'[i].model = last'.model /\ last'.model \in Range(events'[i].seen.models)
       /\ (last'.op = "save:fail" /\ ~last'.flag) =>
            /\ last'.model \in Members(c) => (last'.model \in Members(c)' /\ byCid'[c][Cid(last'.model)] = last'.model)
            /\ models'[c] = models[c] /\ length'[c] = length[c]
            /\ \A i \in 1..Len(events') : events'[i].ev \notin {"remove", "sync"}]_vars

\* C14 witness: the save of a model created without wait was rejected with E1;
\* the model is still one of the two members, indexed by its cid, and nothing
\* was emitted.
C14_Witness ==
  /\ last.op = "save:fail" /\ ~last.flag /\ last.err = "E1"
  /\ Len(models["A"]) = 2 /\ length["A"] = 2 /\ byCid["A"][Cid(last.model)] = last.model
  /\ events = <<>>

\* C14 witness: a create without wait has returned with its add event emitted
\* and its save in flight.
C14_CreateWitness == last.op = "create" /\ ~last.flag /\ ~last.silent /\ Emitted("A", "add") # {} /\ (\E s \in saves : s.model = last.model) /\ Len(models["A"]) = 2

\* C15: get(x) and getByCid(x) are undefined when x is null, undefined or the
\* empty string, and when x is a server id (a cid) that no member has.
C15_EmptyLookupsAreUndefined ==
  \A c \in Colls :
    /\ \A x \in {JsNull, Undefined, EmptyString} : get(World, c, x) = Undefined /\ getByCid(World, c, x) = Undefined
    /\ \A i \in Ids : (\A m \in Members(c) : id[m] # i) => get(World, c, i) = Undefined
    /\ \A k \in Cids : (\A m \in Members(c) : Cid(m) # k) => getByCid(World, c, k) = Undefined

\* C16: an add is refused with "Duplicate id" only when one of its items has a
\* server id that the collection has indexed or that an earlier item of the
\* batch has too; and an add of distinct objects without server ids, none of
\* them a member, succeeds whatever the collection holds, and all of them are
\* members afterwards.
C16_OnlyServerIdsCollide ==
  [][last'.op = "add" =>
       \A c \in Colls : last'.coll = c =>
          /\ last'.err = "duplicate id" =>
               \E i \in 1..Len(last'.items) :
                  /\ last'.items[i] \in Objs /\ id[last'.items[i]] # NoId
                  /\ \/ byId[c][id[last'.items[i]]] # Undefined
                     \/ \E j \in 1..(i - 1) : last'.items[j] \in Objs /\ id[last'.items[j]] = id[last'.items[i]]
          /\ (/\ \A i \in 1..Len(last'.items) : last'.items[i] \in Objs /\ id[last'.items[i]] = NoId /\ last'.items[i] \notin Members(c)
              /\ IsRepeatFree(last'.items)) =>
               /\ last'.err = "none"
               /\ Range(last'.items) \subseteq Members(c)'
               /\ Len(models'[c]) = Len(models[c]) + Len(last'.items)]_vars

\* C16 witness: two objects without server ids have been added in one call to
\* a collection that held a third.
C16_Witness ==
  /\ last.op = "add" /\ last.err = "none" /\ Len(last.items) = 2
  /\ \A o \in Objs : id[o] = NoId
  /\ Members("A") = Objs /\ Len(models["A"]) = 3

\* C17: whenever a collection notifies its listeners (add, remove, reset, a
\* destroy or change:objectId it passes on), what they can read of it is
\* consistent: length is the number of models and every model is under its cid
\* in _byCid; for an add event the model is in models at the index the event
\* carries, under its cid in _byCid and, if it has a server id, under it in
\* _byId; for a remove or destroy event the model is in neither models, _byCid
\* nor _byId.
C17_ListenersSeeWholeSteps ==
  \A i \in 1..Len(events) :
    LET e == events[i]
        sn == events[i].seen
    IN /\ sn.length = Len(sn.models)
       /\ \A m \in Range(sn.models) : sn.byCid[Cid(m)] = m
       /\ e.ev = "add" =>
            /\ e.index \in 0..(Len(sn.models) - 1) /\ sn.models[e.index + 1] = e.model
            /\ sn.byCid[Cid(e.model)] = e.model
            /\ id[e.model] # NoId => sn.byId[id[e.model]] = e.model
       /\ e.ev \in {"remove", "destroy"} =>
            /\ e.model \notin Range(sn.models)
            /\ sn.byCid[Cid(e.model)] = Undefined
            /\ \A k \in IdKeys : sn.byId[k] # e.model

\* C17 witness: a remove of two of three members has emitted two remove
\* events; at the first the listeners saw the two remaining models, at the
\* second one.
C17_Witness ==
  /\ last.op = "remove" /\ Len(events) = 2
  /\ events[1].ev = "remove" /\ Len(events[1].seen.models) = 2 /\ events[1].seen.length = 2
  /\ events[2].ev = "remove" /\ Len(events[2].seen.models) = 1

\* C17 witness: a saved member's destroy has been passed on after its remove.
C17_DestroyWitness == last.op = "destroy" /\ id[last.model] # NoId /\ Len(events) = 2 /\ events[1].ev = "remove" /\ events[2].ev = "destroy" /\ events[2].seen.models # <<>>

\* s without the elements of S.
Without(s, S) == SelectSeq(s, LAMBDA m : m \notin S)

\* The item x of a remove identifies the member m: it is m, m's cid, m's
\* server id, or an object that is not a member and has m's server id.
Identifies(c, x, m) ==
  \/ x = m
  \/ x = Cid(m)
  \/ id[m] # NoId /\ (x = id[m] \/ (x \in Objs /\ x \notin Members(c) /\ id[x] = id[m]))

\* C18: remove(items) takes out exactly the members its items identify and
\* skips the other items; unless silent it emits one remove event for each
\* member taken out and nothing else, in the order they are taken out, and
\* the index of each event is the position the member had in models right
\* before it was taken out, that is in models without the members taken out
\* before it; a silent remove emits nothing.
C18_RemoveEventsCarryPosition ==
  [][last'.op = "remove" =>
       \A c \in Colls : last'.coll = c =>
          /\ last'.err = "none"
          /\ Members(c) \ Members(c)' = {m \in Members(c) : \E i \in 1..Len(last'.items) : Identifies(c, last'.items[i], m)}
          /\ models'[c] = Without(models[c], Members(c) \ Members(c)')
          /\ last'.silent => events' = <<>>
          /\ ~last'.silent =>
               /\ Len(events') = Cardinality(Members(c) \ Members(c)')
               /\ \A i \in 1..Len(events') :
                    /\ events'[i].ev = "remove" /\ events'[i].on = c /\ events'[i].src = c
                    /\ events'[i].model \in Members(c) \ Members(c)'
                    /\ \A j \in 1..Len(events') : events'[j].model = events'[i].model => j = i
                    /\ events'[i].index = indexOf(Without(models[c], {events'[j].model : j \in 1..(i - 1)}), events'[i].model)]_vars

\* C18 witness: a remove of two items from three members, not silent: the
\* first event carries index 0, the second index 1, the place its model had
\* once the first was out.
C18_Witness ==
  /\ last.op = "remove" /\ ~last.silent /\ Len(last.items) = 2 /\ Len(events) = 2 /\ Len(models["A"]) = 1
  /\ events[1].index = 0 /\ events[2].index = 1
  /\ events[1].seen.models[2] = events[2].model

\* C18 witness: a remove of a non-member and a member: one event.
C18_SkipWitness ==
  /\ last.op = "remove" /\ ~last.silent /\ Len(last.items) = 2 /\ Len(events) = 1
  /\ last.items[1] \in Objs /\ last.items[2] \in Objs /\ id[last.items[1]] # id[last.items[2]]
  /\ events[1].model = last.items[2] /\ events[1].index = 1

\* C19: an add that succeeds emits, unless silent, exactly one add event for
\* each item and no other event, so none for a model that was a member
\* before; each event carries the index its model has in models when add
\* returns, after the insertion at options.at and the comparator's sort; and
\* when each event fires (the first included) models is already what it is
\* when add returns and every item is under its cid in _byCid.  A silent add
\* emits nothing.
C19_AddEventsCarryFinalPosition ==
  [][(last'.op = "add" /\ last'.err = "none") =>
       \A c \in Colls : last'.coll = c =>
          /\ last'.silent => events' = <<>>
          /\ ~last'.silent =>
               /\ Len(events') = Len(last'.items)
               /\ \A m \in Range(last'.items) : \E i \in 1..Len(events') : events'[i].model = m
               /\ \A i \in 1..Len(events') :
                    /\ events'[i].ev = "add" /\ events'[i].on = c /\ events'[i].src = c
                    /\ events'[i].model \in Range(last'.items) /\ events'[i].model \notin Members(c)
                    /\ \A j \in 1..Len(events') : events'[j].model = events'[i].model => j = i
                    /\ events'[i].index = indexOf(models'[c], events'[i].model)
                    /\ events'[i].seen.models = models'[c]
                    /\ \A m \in Range(last'.items) : events'[i].seen.byCid[Cid(m)] = m]_vars

\* C19 witness: add([x, y], {at: 0}), not silent, to a collection sorted by
\* the key `rank` that had a member: the sort has put y first, and the two
\* events carry index 1 for x and index 0 for y.
C19_Witness ==
  /\ last.op = "add" /\ last.err = "none" /\ ~last.silent /\ last.at = <<0>> /\ Len(last.items) = 2
  /\ comparator["A"] = "key" /\ Len(models["A"]) = 3 /\ Len(events) = 2
  /\ \E i \in 1..2 : events[i].model = last.items[1] /\ events[i].index = 1
  /\ \E i \in 1..2 : events[i].model = last.items[2] /\ events[i].index = 0

\* The items reset must refuse: an invalid one, or two with one cid or one
\* server id.
ResetMustFail(items) ==
  \/ \E i \in 1..Len(items) : items[i] \notin Objs
  \/ \E i, j \in 1..Len(items) : i # j /\ items[i] = items[j]
  \/ \E i, j \in 1..Len(items) : i # j /\ items[i] \in Objs /\ items[j] \in Objs /\ id[items[i]] # NoId /\ id[items[i]] = id[items[j]]

\* C20: reset(items) throws exactly when an item is invalid or two items share
\* a cid or a server id; and then the collection is left empty, not as it was:
\* models is empty, length 0, _byId and _byCid have no entry, no object is
\* listened to, and no event was emitted.
C20_FailedResetLeavesEmpty ==
  [][last'.op = "reset" =>
       \A c \in Colls : last'.coll = c =>
          /\ last'.err # "none" <=> ResetMustFail(last'.items)
          /\ last'.err # "none" =>
               /\ models'[c] = <<>> /\ length'[c] = 0
               /\ \A k \in IdKeys : byId'[c][k] = Undefined
               /\ \A k \in Cids : byCid'[c][k] = Undefined
               /\ Subscribed(c)' = {}
               /\ events' = <<>>]_vars

\* C20 witness: a reset, not silent, of a collection of two members was
\* refused for its second item, which has the server id of the first; the
\* collection is empty.
C20_Witness ==
  /\ last.op = "reset" /\ last.err = "duplicate id" /\ ~last.silent /\ last.had = 2 /\ Len(last.items) = 2
  /\ models["A"] = <<>> /\ length["A"] = 0 /\ Subscribed("A") = {}
====
